---- MODULE Spec2Model ----
(***************************************************************************)
(* Team balancing of the 5-a-side football team manager.                   *)
(*                                                                         *)
(* The model follows src/src/teams.py (Team, TeamCreator), the Player of   *)
(* src/src/player.py and the store commands of src/src/db.py.              *)
(*                                                                         *)
(* There are six specifications over one state: Spec and FairSpec run one *)
(* TeamCreator step by step, OrderSpec builds teams from the same players  *)
(* in different orders, PlayerSpec follows one Player object, StoreSpec    *)
(* runs the commands of the store one after the other and RaceSpec runs    *)
(* record_match_result on two connections to the same database file.       *)
(*                                                                         *)
(* Ratings are Python floats in the program.  The model keeps them exact   *)
(* as integers: a player's rating is held in units of 1/120 (the mean of   *)
(* six scores times (1 + 0.05 * form) is  sum * (20 + form) / 120), a      *)
(* team bonus in tenths (1.0 is 10, 1.2 is 12) and a team rating in units  *)
(* of 1/1200.  Rounding of floating point sums is not modelled.            *)
(***************************************************************************)
EXTENDS Integers, Sequences, FiniteSets, TLC

VARIABLES
    pc,            \* start, ready, loop, swapped, done, raised (list.remove
                   \* found no player) or the exception that ended the call
    caller,        \* who built the TeamCreator: "none", "direct" or "db"
    players,       \* TeamCreator.players, the list handed to the constructor
    team_1_size,   \* TeamCreator.team_1_size
    team_2_size,   \* TeamCreator.team_2_size
    team_1,        \* TeamCreator.team_1: [players, bonus]
    team_2,        \* TeamCreator.team_2: [players, bonus]
    swap_heap,     \* TeamCreator.swap_heap: the set of (diff, i, j) entries
    frame,         \* locals of one pass of the loop of
                   \* _adjust_teams_for_fairness: <<>> or
                   \* <<[idx1, idx2, player1, player2, old_diff]>>
    calls,         \* number of create_balanced_teams calls made so far
    attempts,      \* number of passes of the swap loop made so far
    reverts,       \* number of swaps undone so far
    seed_diff,     \* imbalance of the seed split after the bonus was assigned
    seed_heap,     \* number of heap entries after _precompute_valid_swaps
    before,        \* the player lists as they were when the last swap began
    first_result,  \* the membership the first create_balanced_teams returned
    order_in,      \* OrderSpec: <<>> or <<[players, size_1, size_2]>>, the
                   \* players in the order of their names and the sizes asked
    order_ref,     \* OrderSpec: <<>> or the outcome for the order of order_in
    order_out,     \* OrderSpec: <<>> or the outcome for another order
    obj,           \* PlayerSpec: <<>> or one Player object,
                   \* <<[attributes, form, mu, den, ts_mu, sigma]>>; mu and
                   \* trueskill_rating.mu are held as the integers mu * den
    obj_form,      \* PlayerSpec: <<>> or <<form>>, the form Player(...) was
                   \* given
    obj_log,       \* PlayerSpec: [won, before, after], the form before and
                   \* after every update_trueskill(won)
    obj_rating,    \* PlayerSpec: the last two values get_overall_rating
                   \* returned since the Player was built or updated, each
                   \* [num, den, form]: the value num / den and the form it
                   \* was called at
    db_players,    \* StoreSpec: table players, name -> <<>> or <<row>>
    db_matches,    \* StoreSpec: table matches, the rows in insertion order
    db_last_teams, \* StoreSpec: table last_teams, the rows in insertion order
    db_creates,    \* StoreSpec: number of create_teams calls that succeeded
    db_unused,     \* StoreSpec: a create_teams call has succeeded and no
                   \* match was recorded since
    db_commands,   \* StoreSpec: number of commands run so far
    db_cmd,        \* StoreSpec: [op, arg, error] of the last command; arg
                   \* is <<winning_team>> for record_match_result, <<name>>
                   \* for add_player, else <<>>
    db_ret,        \* StoreSpec: what the last command returned
    conn           \* RaceSpec: for each connection the position and the
                   \* locals of its record_match_result:
                   \* [pc, winning_team, snapshot, rows, last]

creator_vars ==
    <<pc, caller, players, team_1_size, team_2_size, team_1, team_2,
      swap_heap, frame, calls, attempts, reverts, seed_diff, seed_heap,
      before, first_result>>

order_vars == <<order_in, order_ref, order_out>>

player_vars == <<obj, obj_form, obj_log, obj_rating>>

store_vars ==
    <<db_players, db_matches, db_last_teams, db_creates, db_unused,
      db_commands, db_cmd, db_ret>>

race_vars == <<conn>>

vars == <<pc, caller, players, team_1_size, team_2_size, team_1, team_2,
          swap_heap, frame, calls, attempts, reverts, seed_diff, seed_heap,
          before, first_result, order_in, order_ref, order_out, obj, obj_form,
          obj_log, obj_rating, db_players, db_matches, db_last_teams, db_creates,
          db_unused, db_commands, db_cmd, db_ret, conn>>

----------------------------------------------------------------------------
(* Bounds of the model *)

MaxPlayers == 5

MaxCalls == 2

MaxNames == 3

MaxOrder == 5

MaxCreates == 2

MaxUpdates == 2

MaxCommands == 4

(* Program constants *)

\* LARGE_TEAM_BOOST = 1.2, in tenths
LARGE_TEAM_BOOST == 12

\* Team.__init__ default bonus = 1.0, in tenths
DefaultBonus == 10

\* NUM_ATTRIBUTES
NUM_ATTRIBUTES == 6

\* Player.min_sigma = 1.0
MIN_SIGMA == 1

\* The range Player.__post_init__ and the form update keep the form in
MinForm == 0

MaxForm == 10

\* The form reset_player_forms writes, the default of the column form
DefaultForm == 5

\* The bonus get_last_teams gives a team without rows, 0.0
NoBonus == 0

\* The labels of the two teams, teams.TEAM1 and teams.TEAM2
TEAM1 == "team1"

TEAM2 == "team2"

----------------------------------------------------------------------------
(* Players *)

\* The players table: five players with distinct names.  Scores are numeric
\* and not range checked (PlayerAttribute.__post_init__), form is in 0..10.
Roster ==
    { [name |-> "a", attributes |-> <<0, 0, 0, 0, 0, 0>>,       form |-> 5],
      [name |-> "b", attributes |-> <<9, 6, 9, 5, 9, 7>>,       form |-> 0],
      [name |-> "c", attributes |-> <<11, 11, 11, 11, 11, 11>>, form |-> 5],
      [name |-> "d", attributes |-> <<15, 15, 15, 15, 15, 15>>, form |-> 10],
      [name |-> "e", attributes |-> <<30, 30, 30, 30, 30, 30>>, form |-> 0] }

\* A name that is not in the players table
UnknownName == "ghost"

Names == {p.name : p \in Roster} \cup {UnknownName}

RECURSIVE SumSeq(_)
SumSeq(s) == IF s = <<>> THEN 0 ELSE Head(s) + SumSeq(Tail(s))

Abs(x) == IF x < 0 THEN -x ELSE x

\* Player._get_base_rating times NUM_ATTRIBUTES: the sum of the six scores
AttributeTotal(p) == SumSeq(p.attributes)

\* Player.get_overall_rating, in units of 1/120:
\*   (total / 6) * (1 + 0.05 * form)  =  total * (20 + form) / 120
GetOverallRating(p) == AttributeTotal(p) * (20 + p.form)

----------------------------------------------------------------------------
(* Team *)

\* Team(players, bonus)
Team(ps, bonus) == [players |-> ps, bonus |-> bonus]

RECURSIVE SumRatings(_)
SumRatings(ps) ==
    IF ps = <<>> THEN 0 ELSE GetOverallRating(Head(ps)) + SumRatings(Tail(ps))

\* Team.get_overall_rating, in units of 1/1200: total_rating * bonus
TeamRating(team) == SumRatings(team.players) * team.bonus

\* TeamCreator._team_rating_diff
TeamRatingDiff(t1, t2) == Abs(TeamRating(t1) - TeamRating(t2))

----------------------------------------------------------------------------
(* TeamCreator: the seed split *)

\* sorted(..., reverse=True) is stable: x goes behind every player rated
\* higher and in front of the players of equal rating that came after it.
RECURSIVE InsertDesc(_, _)
InsertDesc(x, s) ==
    IF s = <<>> THEN <<x>>
    ELSE IF GetOverallRating(Head(s)) > GetOverallRating(x)
         THEN <<Head(s)>> \o InsertDesc(x, Tail(s))
         ELSE <<x>> \o s

\* Mutant of SortedByRating: the list is dealt in the order it was given
SortedByRating_AsGiven(ps) == ps

RECURSIVE SortedByRating(_)
SortedByRating(ps) ==
    IF ps = <<>> THEN <<>> ELSE InsertDesc(Head(ps), SortedByRating(Tail(ps)))

\* Mutant of GoesToTeam1: the deal alternates and never tops a team up
GoesToTeam1_NoFill(i, n1, n2, s1, s2) == n1 < s1 /\ i % 2 = 0

\* The condition that sends the player at 0-based position i to team 1
GoesToTeam1(i, n1, n2, s1, s2) == n1 < s1 /\ (i % 2 = 0 \/ n2 >= s2)

RECURSIVE Deal(_, _, _, _, _, _)
Deal(sp, i, t1, t2, s1, s2) ==
    IF i >= Len(sp) THEN <<t1, t2>>
    ELSE IF GoesToTeam1(i, Len(t1), Len(t2), s1, s2)
         THEN Deal(sp, i + 1, Append(t1, sp[i + 1]), t2, s1, s2)
         ELSE Deal(sp, i + 1, t1, Append(t2, sp[i + 1]), s1, s2)

\* Mutant of DistributePlayers: the best s1 players go to team 1
DistributePlayers_Halves(ps, s1, s2) ==
    <<SubSeq(SortedByRating(ps), 1, s1),
      SubSeq(SortedByRating(ps), s1 + 1, Len(ps))>>

\* TeamCreator._distribute_players: the two player lists of the zigzag deal
DistributePlayers(ps, s1, s2) == Deal(SortedByRating(ps), 0, <<>>, <<>>, s1, s2)

\* Mutant of ApplyTeamBonus: the boost goes to the team with fewer players
ApplyTeamBonus_Smaller(n1, n2) ==
    IF n1 < n2 THEN <<LARGE_TEAM_BOOST, DefaultBonus>>
    ELSE IF n2 < n1 THEN <<DefaultBonus, LARGE_TEAM_BOOST>>
    ELSE <<DefaultBonus, DefaultBonus>>

\* Mutant of ApplyTeamBonus: no boost is given
ApplyTeamBonus_None(n1, n2) == <<DefaultBonus, DefaultBonus>>

\* TeamCreator._apply_team_bonus: the bonuses (team 1, team 2) for the sizes
ApplyTeamBonus(n1, n2) ==
    IF n1 > n2 THEN <<LARGE_TEAM_BOOST, DefaultBonus>>
    ELSE IF n2 > n1 THEN <<DefaultBonus, LARGE_TEAM_BOOST>>
    ELSE <<DefaultBonus, DefaultBonus>>

----------------------------------------------------------------------------
(* TeamCreator: the swap heap.  A heapq of distinct tuples is a set read  *)
(* through its least element in tuple order.                              *)

\* TeamCreator._precompute_valid_swaps: entries (diff, i, j), 0-based i, j
PrecomputeValidSwaps(ps1, ps2) ==
    { <<Abs(GetOverallRating(ps1[i + 1]) - GetOverallRating(ps2[j + 1])), i, j>> :
        i \in 0..(Len(ps1) - 1), j \in 0..(Len(ps2) - 1) }

\* Python's order of tuples
TupleLess(e, f) ==
    \/ e[1] < f[1]
    \/ e[1] = f[1] /\ e[2] < f[2]
    \/ e[1] = f[1] /\ e[2] = f[2] /\ e[3] < f[3]

\* swap_heap[0], the entry heappop returns
HeapTop(h) == CHOOSE e \in h : \A f \in h \ {e} : TupleLess(e, f)

\* Mutant of FindBestSwap: the top entry is read and left on the heap
FindBestSwap_NoPop(h, n1, n2) ==
    IF h = {} THEN [found |-> FALSE, idx1 |-> -1, idx2 |-> -1, heap |-> {}]
    ELSE LET e == HeapTop(h)
         IN  [found |-> e[2] < n1 /\ e[3] < n2, idx1 |-> e[2], idx2 |-> e[3],
              heap |-> h]

\* TeamCreator._find_best_swap: pops until an entry has valid indices
RECURSIVE FindBestSwap(_, _, _)
FindBestSwap(h, n1, n2) ==
    IF h = {} THEN [found |-> FALSE, idx1 |-> -1, idx2 |-> -1, heap |-> {}]
    ELSE LET e == HeapTop(h)
             rest == h \ {e}
         IN  IF e[2] < n1 /\ e[3] < n2
             THEN [found |-> TRUE, idx1 |-> e[2], idx2 |-> e[3], heap |-> rest]
             ELSE FindBestSwap(rest, n1, n2)

\* TeamCreator._can_improve_balance, the simulation: new_diff for the
\* players at the 0-based positions idx1 and idx2.  A player's rating, in
\* units of 1/120, is added to and taken from team ratings in units of 1/1200.
SimulatedDiff(t1, t2, idx1, idx2) ==
    LET player1 == t1.players[idx1 + 1]
        player2 == t2.players[idx2 + 1]
        new_team1_rating ==
            TeamRating(t1) - 10 * GetOverallRating(player1)
                           + 10 * GetOverallRating(player2)
        new_team2_rating ==
            TeamRating(t2) - 10 * GetOverallRating(player2)
                           + 10 * GetOverallRating(player1)
    IN  Abs(new_team1_rating - new_team2_rating)

\* TeamCreator._can_improve_balance
CanImproveBalance(t1, t2, h) ==
    IF h = {} THEN FALSE
    ELSE LET e == HeapTop(h)
             idx1 == e[2]
             idx2 == e[3]
         IN  IF idx1 >= Len(t1.players) \/ idx2 >= Len(t2.players) THEN FALSE
             ELSE LET diff_before == TeamRatingDiff(t1, t2)
                      new_diff == SimulatedDiff(t1, t2, idx1, idx2)
                  IN  new_diff < diff_before

\* list.remove(x): drops the first element equal to x
RECURSIVE RemoveFirst(_, _)
RemoveFirst(s, x) ==
    IF s = <<>> THEN <<>>
    ELSE IF Head(s) = x THEN Tail(s)
         ELSE <<Head(s)>> \o RemoveFirst(Tail(s), x)

IsIn(s, x) == \E k \in 1..Len(s) : s[k] = x

\* list.remove(x) raises ValueError when x is not in the list: both removals
\* of _swap_players find their player
CanSwap(ps1, ps2, player1, player2) ==
    IsIn(ps1, player1) /\ IsIn(Append(ps2, player1), player2)

\* Mutant of SwapPlayers: player2 is not removed from team 2
SwapPlayers_NoRemove(ps1, ps2, player1, player2) ==
    <<Append(RemoveFirst(ps1, player1), player2), Append(ps2, player1)>>

\* TeamCreator._swap_players: the player lists (team 1, team 2) afterwards
SwapPlayers(ps1, ps2, player1, player2) ==
    LET a == RemoveFirst(ps1, player1)
        b == Append(ps2, player1)
        c == RemoveFirst(b, player2)
        d == Append(a, player2)
    IN  <<d, c>>

\* Mutant of SwapDidNotImprove: a swap is never undone
SwapDidNotImprove_Never(new_diff, diff_before) == FALSE

\* The test of line 208: the swap did not improve the balance
SwapDidNotImprove(new_diff, diff_before) == new_diff >= diff_before

----------------------------------------------------------------------------
(* Inputs *)

\* Lists of Player objects of at most MaxPlayers entries; an object may be
\* listed more than once.  The seed split sorts its input, so the constructor
\* is given one order of every multiset, the ascending one; DB.create_teams
\* below is given every order of at most MaxNames names.
PlayerLists ==
    UNION { { ps \in [1..n -> Roster] :
                \A k \in 1..(n - 1) :
                    GetOverallRating(ps[k]) <= GetOverallRating(ps[k + 1]) } :
            n \in 0..MaxPlayers }

NameLists == UNION { [1..n -> Names] : n \in 0..MaxNames }

Sizes == 0..MaxPlayers

\* Players for OrderSpec, in the order of their names.  b and f have the
\* same rating (7.5), h and i have the same rating (3.75); j is rated 5.0
\* and k 15.0.
OrderPlayers ==
    << [name |-> "b", attributes |-> <<9, 6, 9, 5, 9, 7>>,       form |-> 0],
       [name |-> "f", attributes |-> <<6, 6, 6, 6, 6, 6>>,       form |-> 5],
       [name |-> "h", attributes |-> <<3, 3, 3, 3, 3, 3>>,       form |-> 5],
       [name |-> "i", attributes |-> <<3, 2, 3, 2, 3, 2>>,       form |-> 10],
       [name |-> "j", attributes |-> <<4, 4, 4, 4, 4, 4>>,       form |-> 5],
       [name |-> "k", attributes |-> <<12, 12, 12, 12, 12, 12>>, form |-> 5] >>

\* The names the store is given: three players of Roster and UnknownName
StoreNames == {"b", "c", "d"}

\* The connections to one database file, each held by one DB object
Connections == {1, 2}

\* A connection on which record_match_result was not called
Idle ==
    [pc |-> "idle", winning_team |-> "", snapshot |-> 0, rows |-> <<>>,
     last |-> <<>>]

\* DB.get_player_by_name for a name of the players table
GetPlayerByName(name) == CHOOSE p \in Roster : p.name = name

Known(name) == \E p \in Roster : p.name = name

\* How often each player occurs in a list
Membership(ps) == [p \in Roster |-> Cardinality({k \in 1..Len(ps) : ps[k] = p})]

----------------------------------------------------------------------------
(* State machine *)

Init ==
    /\ pc = "start"
    /\ caller = "none"
    /\ players = <<>>
    /\ team_1_size = 0
    /\ team_2_size = 0
    /\ team_1 = Team(<<>>, DefaultBonus)
    /\ team_2 = Team(<<>>, DefaultBonus)
    /\ swap_heap = {}
    /\ frame = <<>>
    /\ calls = 0
    /\ attempts = 0
    /\ reverts = 0
    /\ seed_diff = 0
    /\ seed_heap = 0
    /\ before = <<>>
    /\ first_result = <<>>
    /\ order_in = <<>>
    /\ order_ref = <<>>
    /\ order_out = <<>>
    /\ obj = <<>>
    /\ obj_form = <<>>
    /\ obj_log = <<>>
    /\ obj_rating = <<>>
    /\ db_players = [n \in StoreNames |-> <<>>]
    /\ db_matches = <<>>
    /\ db_last_teams = <<>>
    /\ db_creates = 0
    /\ db_unused = FALSE
    /\ db_commands = 0
    /\ db_cmd = [op |-> "none", arg |-> <<>>, error |-> "none"]
    /\ db_ret = <<>>
    /\ conn = [c \in Connections |-> Idle]

\* An exception leaves through the caller: nothing of the object is kept
Fail(kind) ==
    /\ pc' = kind
    /\ UNCHANGED <<caller, players, team_1_size, team_2_size, team_1, team_2,
                   swap_heap, frame, calls, attempts, reverts, seed_diff,
                   seed_heap, before, first_result>>

\* TeamCreator.__init__ after the size check
Construct(ps, s1, s2) ==
    LET split == DistributePlayers(ps, s1, s2)
        bonus == ApplyTeamBonus(Len(split[1]), Len(split[2]))
        t1 == Team(split[1], bonus[1])
        t2 == Team(split[2], bonus[2])
        heap == PrecomputeValidSwaps(t1.players, t2.players)
    IN  /\ players' = ps
        /\ team_1_size' = s1
        /\ team_2_size' = s2
        /\ team_1' = t1
        /\ team_2' = t2
        /\ swap_heap' = heap
        /\ seed_diff' = TeamRatingDiff(t1, t2)
        /\ seed_heap' = Cardinality(heap)
        /\ UNCHANGED <<frame, attempts, reverts, before, first_result>>

\* Mutant of NewTeamCreator: the sizes are not checked against the list
NewTeamCreator_NoCheck ==
    /\ pc = "start"
    /\ UNCHANGED <<order_vars, player_vars, store_vars, race_vars>>
    /\ \E ps \in PlayerLists, s1 \in Sizes, s2 \in Sizes :
          /\ Construct(ps, s1, s2)
          /\ pc' = "ready"
          /\ caller' = "direct"
          /\ UNCHANGED calls

\* TeamCreator(players, team_1_size, team_2_size)
NewTeamCreator ==
    /\ pc = "start"
    /\ UNCHANGED <<order_vars, player_vars, store_vars, race_vars>>
    /\ \E ps \in PlayerLists, s1 \in Sizes, s2 \in Sizes :
          IF Len(ps) # s1 + s2
          THEN Fail("InvalidTeamSizeError")
          ELSE /\ Construct(ps, s1, s2)
               /\ pc' = "ready"
               /\ caller' = "direct"
               /\ UNCHANGED calls

\* DB.create_teams(player_names) up to its call of create_balanced_teams
DBCreateTeams ==
    /\ pc = "start"
    /\ UNCHANGED <<order_vars, player_vars, store_vars, race_vars>>
    /\ \E names \in NameLists :
          IF \E k \in 1..Len(names) : ~Known(names[k])
          THEN Fail("ValueError")
          ELSE LET ps == [k \in 1..Len(names) |-> GetPlayerByName(names[k])]
               IN  IF Len(ps) < 2
                   THEN Fail("InvalidTeamsError")
                   ELSE /\ Construct(ps, Len(ps) \div 2, Len(ps) - Len(ps) \div 2)
                        /\ pc' = "loop"
                        /\ caller' = "db"
                        /\ calls' = 1

\* TeamCreator.create_balanced_teams, called on a TeamCreator the caller holds
CreateBalancedTeams ==
    /\ pc \in {"ready", "done"}
    /\ UNCHANGED <<order_vars, player_vars, store_vars, race_vars>>
    /\ caller = "direct"
    /\ calls < MaxCalls
    /\ pc' = "loop"
    /\ calls' = calls + 1
    /\ frame' = <<>>
    /\ UNCHANGED <<caller, players, team_1_size, team_2_size, team_1, team_2,
                   swap_heap, attempts, reverts, seed_diff, seed_heap, before,
                   first_result>>

\* What create_balanced_teams hands back; the first call's is remembered
Returned(ps1, ps2) ==
    first_result' = IF calls = 1 THEN <<Membership(ps1), Membership(ps2)>>
                    ELSE first_result

\* The loop test fails: _adjust_teams_for_fairness ends, the teams are returned
StopAdjusting ==
    /\ pc = "loop"
    /\ UNCHANGED <<order_vars, player_vars, store_vars, race_vars>>
    /\ ~CanImproveBalance(team_1, team_2, swap_heap)
    /\ pc' = "done"
    /\ Returned(team_1.players, team_2.players)
    /\ UNCHANGED <<caller, players, team_1_size, team_2_size, team_1, team_2,
                   swap_heap, frame, calls, attempts, reverts, seed_diff,
                   seed_heap, before>>

\* One pass of the loop up to the swap: the loop test holds, the heap is
\* popped, the two players are read and exchanged.
TrySwap ==
    /\ pc = "loop"
    /\ UNCHANGED <<order_vars, player_vars, store_vars, race_vars>>
    /\ CanImproveBalance(team_1, team_2, swap_heap)
    /\ LET r == FindBestSwap(swap_heap, Len(team_1.players), Len(team_2.players))
       IN  IF ~r.found
           THEN /\ pc' = "done"
                /\ swap_heap' = r.heap
                /\ attempts' = attempts + 1
                /\ Returned(team_1.players, team_2.players)
                /\ UNCHANGED <<caller, players, team_1_size, team_2_size,
                               team_1, team_2, frame, calls, reverts,
                               seed_diff, seed_heap, before>>
           ELSE LET player1 == team_1.players[r.idx1 + 1]
                    player2 == team_2.players[r.idx2 + 1]
                    new == SwapPlayers(team_1.players, team_2.players,
                                       player1, player2)
                IN  IF ~CanSwap(team_1.players, team_2.players, player1, player2)
                    THEN Fail("raised")
                    ELSE /\ pc' = "swapped"
                         /\ swap_heap' = r.heap
                         /\ attempts' = attempts + 1
                         /\ frame' = <<[idx1 |-> r.idx1, idx2 |-> r.idx2,
                                        player1 |-> player1,
                                        player2 |-> player2,
                                        old_diff |-> TeamRatingDiff(team_1, team_2)]>>
                         /\ before' = <<team_1.players, team_2.players>>
                         /\ team_1' = [team_1 EXCEPT !.players = new[1]]
                         /\ team_2' = [team_2 EXCEPT !.players = new[2]]
                         /\ UNCHANGED <<caller, players, team_1_size,
                                        team_2_size, calls, reverts, seed_diff,
                                        seed_heap, first_result>>

\* The swap improved the balance: it stays and the loop goes on
KeepSwap ==
    /\ pc = "swapped"
    /\ UNCHANGED <<order_vars, player_vars, store_vars, race_vars>>
    /\ ~SwapDidNotImprove(TeamRatingDiff(team_1, team_2), frame[1].old_diff)
    /\ pc' = "loop"
    /\ UNCHANGED <<caller, players, team_1_size, team_2_size, team_1, team_2,
                   swap_heap, frame, calls, attempts, reverts, seed_diff,
                   seed_heap, before, first_result>>

\* The swap did not improve the balance: it is undone and the loop is left
RevertSwap ==
    /\ pc = "swapped"
    /\ UNCHANGED <<order_vars, player_vars, store_vars, race_vars>>
    /\ SwapDidNotImprove(TeamRatingDiff(team_1, team_2), frame[1].old_diff)
    /\ LET new == SwapPlayers(team_1.players, team_2.players,
                              frame[1].player2, frame[1].player1)
       IN  IF ~CanSwap(team_1.players, team_2.players,
                       frame[1].player2, frame[1].player1)
           THEN Fail("raised")
           ELSE /\ team_1' = [team_1 EXCEPT !.players = new[1]]
                /\ team_2' = [team_2 EXCEPT !.players = new[2]]
                /\ Returned(new[1], new[2])
                /\ pc' = "done"
                /\ reverts' = reverts + 1
                /\ UNCHANGED <<caller, players, team_1_size, team_2_size,
                               swap_heap, frame, calls, attempts, seed_diff,
                               seed_heap, before>>

Next ==
    \/ NewTeamCreator
    \/ DBCreateTeams
    \/ CreateBalancedTeams
    \/ StopAdjusting
    \/ TrySwap
    \/ KeepSwap
    \/ RevertSwap

Spec == Init /\ [][Next]_vars

\* The swap loop is sequential code: once entered it keeps running
Adjust == StopAdjusting \/ TrySwap \/ KeepSwap \/ RevertSwap

FairSpec == Spec /\ WF_vars(Adjust)

----------------------------------------------------------------------------
(* TeamCreator run to its end in one step *)

\* TeamCreator._adjust_teams_for_fairness: the loop run until it is left
RECURSIVE AdjustTeamsForFairness(_, _, _)
AdjustTeamsForFairness(t1, t2, h) ==
    IF ~CanImproveBalance(t1, t2, h)
    THEN [raised |-> FALSE, team_1 |-> t1, team_2 |-> t2]
    ELSE LET r == FindBestSwap(h, Len(t1.players), Len(t2.players))
         IN  IF ~r.found
             THEN [raised |-> FALSE, team_1 |-> t1, team_2 |-> t2]
             ELSE LET player1 == t1.players[r.idx1 + 1]
                      player2 == t2.players[r.idx2 + 1]
                      old_diff == TeamRatingDiff(t1, t2)
                      new == SwapPlayers(t1.players, t2.players,
                                         player1, player2)
                      n1 == [t1 EXCEPT !.players = new[1]]
                      n2 == [t2 EXCEPT !.players = new[2]]
                      back == SwapPlayers(n1.players, n2.players,
                                          player2, player1)
                  IN  IF ~CanSwap(t1.players, t2.players, player1, player2)
                      THEN [raised |-> TRUE, team_1 |-> t1, team_2 |-> t2]
                      ELSE IF ~SwapDidNotImprove(TeamRatingDiff(n1, n2), old_diff)
                      THEN AdjustTeamsForFairness(n1, n2, r.heap)
                      ELSE IF ~CanSwap(n1.players, n2.players, player2, player1)
                      THEN [raised |-> TRUE, team_1 |-> n1, team_2 |-> n2]
                      ELSE [raised |-> FALSE,
                            team_1 |-> [t1 EXCEPT !.players = back[1]],
                            team_2 |-> [t2 EXCEPT !.players = back[2]]]

\* TeamCreator(ps, s1, s2).create_balanced_teams(): the exception that ends
\* it or "none", and the teams it returns
BalancedTeams(ps, s1, s2) ==
    IF Len(ps) # s1 + s2
    THEN [error |-> "InvalidTeamSizeError", team_1 |-> Team(<<>>, DefaultBonus),
          team_2 |-> Team(<<>>, DefaultBonus)]
    ELSE LET split == DistributePlayers(ps, s1, s2)
             bonus == ApplyTeamBonus(Len(split[1]), Len(split[2]))
             t1 == Team(split[1], bonus[1])
             t2 == Team(split[2], bonus[2])
             r == AdjustTeamsForFairness(t1, t2,
                      PrecomputeValidSwaps(t1.players, t2.players))
         IN  [error |-> IF r.raised THEN "ValueError" ELSE "none",
              team_1 |-> r.team_1, team_2 |-> r.team_2]

----------------------------------------------------------------------------
(* OrderSpec: the same players handed to TeamCreator in different orders *)

\* The players at the positions S of OrderPlayers, in the order of
\* OrderPlayers, from position k on
RECURSIVE Picked(_, _)
Picked(S, k) ==
    IF k > Len(OrderPlayers) THEN <<>>
    ELSE (IF k \in S THEN <<OrderPlayers[k]>> ELSE <<>>) \o Picked(S, k + 1)

\* Every order of the list ps
Orders(ps) ==
    { [k \in 1..Len(ps) |-> ps[q[k]]] :
        q \in { f \in [1..Len(ps) -> 1..Len(ps)] :
                  \A i, j \in 1..Len(ps) : i # j => f[i] # f[j] } }

\* What one run is remembered by
Outcome(ps, s1, s2) ==
    LET r == BalancedTeams(ps, s1, s2)
    IN  [given |-> ps, error |-> r.error, team_1 |-> r.team_1,
         team_2 |-> r.team_2, imbalance |-> TeamRatingDiff(r.team_1, r.team_2)]

\* TeamCreator(players, s1, s2).create_balanced_teams() for a set of at most
\* MaxOrder players and sizes that add up to their number
OrderFirst ==
    /\ order_in = <<>>
    /\ UNCHANGED <<creator_vars, player_vars, store_vars, race_vars>>
    /\ \E S \in SUBSET (1..Len(OrderPlayers)) :
          /\ Cardinality(S) <= MaxOrder
          /\ \E s1 \in 0..Cardinality(S) :
                LET ps == Picked(S, 1)
                    s2 == Len(ps) - s1
                IN  /\ order_in' = <<[players |-> ps, size_1 |-> s1,
                                      size_2 |-> s2]>>
                    /\ order_ref' = <<Outcome(ps, s1, s2)>>
                    /\ order_out' = <<>>

\* The same call with the same players in another order
OrderAgain ==
    /\ order_in # <<>>
    /\ order_out = <<>>
    /\ UNCHANGED <<creator_vars, player_vars, store_vars, race_vars>>
    /\ \E ps \in Orders(order_in[1].players) :
          /\ order_out' = <<Outcome(ps, order_in[1].size_1, order_in[1].size_2)>>
          /\ UNCHANGED <<order_in, order_ref>>

OrderNext == OrderFirst \/ OrderAgain

OrderSpec == Init /\ [][OrderNext]_vars

----------------------------------------------------------------------------
(* PlayerSpec: one Player object.  mu starts as the mean of the six scores *)
(* and is a fraction with the denominator den, 6 at first and ten times    *)
(* larger after every update.                                              *)

Min(x, y) == IF x < y THEN x ELSE y

Max(x, y) == IF x > y THEN x ELSE y

\* Mutant of ClampForm: the form is taken as given
ClampForm_AsGiven(form) == form

\* Player.__post_init__: the form is clamped into 0..10
ClampForm(form) == Max(MinForm, Min(form, MaxForm))

\* The scores and the forms Player(...) is given
ObjAttributes == {p.attributes : p \in Roster} \cup {<<5, 5, 5, 5, 5, 5>>}

FormInputs == (MinForm - 3)..(MaxForm + 5)

\* Mutant of CalculateTrueskill: the rating is rebuilt from the six scores
\* and the form drifts back to 5
CalculateTrueskill_Rebuild(o) ==
    [o EXCEPT !.mu = SumSeq(o.attributes) * (o.den \div NUM_ATTRIBUTES),
              !.ts_mu = SumSeq(o.attributes) * (o.den \div NUM_ATTRIBUTES),
              !.form = IF o.form > 5 THEN o.form - 1 ELSE o.form,
              !.sigma = Max(10 - o.form, MIN_SIGMA)]

\* Player._calculate_trueskill: trueskill_rating is rebuilt from mu and form
CalculateTrueskill(o) ==
    [o EXCEPT !.ts_mu = o.mu, !.sigma = Max(10 - o.form, MIN_SIGMA)]

\* Player.__post_init__: the object Player(name, attributes, form) becomes
PlayerObject(attributes, form) ==
    CalculateTrueskill([attributes |-> attributes, form |-> ClampForm(form),
                        mu |-> SumSeq(attributes), den |-> NUM_ATTRIBUTES,
                        ts_mu |-> 0, sigma |-> 0])

\* Player(name, attributes, form)
NewPlayer ==
    /\ obj = <<>>
    /\ UNCHANGED <<creator_vars, order_vars, store_vars, race_vars>>
    /\ \E attributes \in ObjAttributes, form \in FormInputs :
          /\ obj' = <<PlayerObject(attributes, form)>>
          /\ obj_form' = <<form>>
          /\ UNCHANGED <<obj_log, obj_rating>>

\* Mutant of TrueskillForm: the step is not clamped
TrueskillForm_NoClamp(form, won) == IF won THEN form + 1 ELSE form - 1

\* Player.update_trueskill: the form after the update
TrueskillForm(form, won) ==
    IF won THEN Min(form + 1, MaxForm) ELSE Max(form - 1, MinForm)

\* Player.update_trueskill: mu * adjustment_factor over ten times the
\* denominator, kept within 1 and 10
TrueskillMu(mu, den, form, won) ==
    Min(Max(mu * (IF won THEN 10 + form ELSE 9), 10 * den), 10 * 10 * den)

\* player.update_trueskill(won)
UpdateTrueskill ==
    /\ obj # <<>>
    /\ Len(obj_log) < MaxUpdates
    /\ UNCHANGED <<creator_vars, order_vars, store_vars, race_vars>>
    /\ \E won \in BOOLEAN :
          LET form == TrueskillForm(obj[1].form, won)
              mu == TrueskillMu(obj[1].ts_mu, obj[1].den, form, won)
          IN  /\ obj' = <<[obj[1] EXCEPT
                             !.form = form,
                             !.mu = mu,
                             !.den = 10 * obj[1].den,
                             !.ts_mu = mu,
                             !.sigma = Max(10 - form, MIN_SIGMA)]>>
              /\ obj_log' = Append(obj_log, [won |-> won,
                                             before |-> obj[1].form,
                                             after |-> form])
              /\ obj_rating' = <<>>
              /\ UNCHANGED obj_form

\* Mutant of OverallRating: the form is left out
OverallRating_NoForm(o) == [num |-> 20 * o.ts_mu, den |-> 20 * o.den]

\* The return value of get_overall_rating:
\*   trueskill_rating.mu * (1 + 0.05 * form) = ts_mu * (20 + form) / 20
OverallRating(o) == [num |-> o.ts_mu * (20 + o.form), den |-> 20 * o.den]

\* The value get_overall_rating returns for the object o
RatingOf(o) == OverallRating(CalculateTrueskill(o))

\* player.get_overall_rating()
CallGetOverallRating ==
    /\ obj # <<>>
    /\ UNCHANGED <<creator_vars, order_vars, store_vars, race_vars>>
    /\ LET o == CalculateTrueskill(obj[1])
           r == OverallRating(o)
           value == [num |-> r.num, den |-> r.den, form |-> o.form]
       IN  /\ obj' = <<o>>
           /\ obj_rating' = IF obj_rating = <<>> THEN <<value>>
                            ELSE <<obj_rating[Len(obj_rating)], value>>
    /\ UNCHANGED <<obj_form, obj_log>>

PlayerNext == NewPlayer \/ UpdateTrueskill \/ CallGetOverallRating

PlayerSpec == Init /\ [][PlayerNext]_vars

----------------------------------------------------------------------------
(* StoreSpec: the commands of DB, one after the other.  A table row of     *)
(* players is [attributes, form] under the player's name; the row ids and  *)
(* the table match_players, which no command writes, are left out.         *)

\* Player.update_form(won): one step up or down, kept in 0..10
UpdateForm(form, won) ==
    IF won THEN Min(form + 1, MaxForm) ELSE Max(form - 1, MinForm)

\* The Player objects add_player is given
StorePlayers == {p \in Roster : p.name \in StoreNames}

\* The name lists create_teams is given
StoreNameLists ==
    UNION { [1..n -> StoreNames \cup {UnknownName}] : n \in 0..MaxNames }

\* The columns and the value update_player_attribute is given; "pace" is not
\* a column
UpdateAttributes == {"goalkeeping", "form", "pace"}

UpdateValues == {11}

\* The winners record_match_result is given; "draw" is not a team
WinnerLabels == {TEAM1, TEAM2, "draw"}

\* valid_attributes of update_player_attribute; 0 for any other name
AttributeColumn(attribute) ==
    CASE attribute = "shooting" -> 1
      [] attribute = "dribbling" -> 2
      [] attribute = "passing" -> 3
      [] attribute = "tackling" -> 4
      [] attribute = "fitness" -> 5
      [] attribute = "goalkeeping" -> 6
      [] attribute = "form" -> 7
      [] OTHER -> 0

\* DB.get_player_by_name: <<>> for None, else the Player built from the row
GetPlayerByNameIn(tbl, name) ==
    IF name \notin DOMAIN tbl \/ tbl[name] = <<>> THEN <<>>
    ELSE <<[name |-> name, attributes |-> tbl[name][1].attributes,
            form |-> ClampForm(tbl[name][1].form)]>>

\* DB._validate_player_exists_by_name: the exception it raises, or "none"
ValidatePlayerExistsByName(tbl, name, should_exist) ==
    IF should_exist /\ GetPlayerByNameIn(tbl, name) = <<>> THEN "ValueError"
    ELSE IF ~should_exist /\ GetPlayerByNameIn(tbl, name) # <<>>
         THEN "ValueError"
         ELSE "none"

\* The command raised: nothing was written
Rejected(op, arg, error) ==
    /\ db_commands' = db_commands + 1
    /\ db_cmd' = [op |-> op, arg |-> arg, error |-> error]
    /\ db_ret' = <<>>
    /\ UNCHANGED <<db_players, db_matches, db_last_teams, db_creates,
                   db_unused>>

\* The command returned
Returns(op, arg, ret) ==
    /\ db_commands' = db_commands + 1
    /\ db_cmd' = [op |-> op, arg |-> arg, error |-> "none"]
    /\ db_ret' = ret

\* Mutant of DBAddPlayer: the name is not validated and the row replaces the
\* one stored under it
DBAddPlayer_Upsert ==
    /\ db_commands < MaxCommands
    /\ UNCHANGED <<creator_vars, order_vars, player_vars, race_vars>>
    /\ \E p \in StorePlayers :
          /\ db_players' = [db_players EXCEPT ![p.name] =
                               <<[attributes |-> p.attributes, form |-> p.form]>>]
          /\ Returns("add_player", <<p.name>>, <<>>)
          /\ UNCHANGED <<db_matches, db_last_teams, db_creates, db_unused>>

\* DB.add_player(player)
DBAddPlayer ==
    /\ db_commands < MaxCommands
    /\ UNCHANGED <<creator_vars, order_vars, player_vars, race_vars>>
    /\ \E p \in StorePlayers :
          LET error == ValidatePlayerExistsByName(db_players, p.name, FALSE)
          IN  IF error # "none"
              THEN Rejected("add_player", <<p.name>>, error)
              ELSE /\ db_players' = [db_players EXCEPT ![p.name] =
                                        <<[attributes |-> p.attributes,
                                           form |-> p.form]>>]
                   /\ Returns("add_player", <<p.name>>, <<>>)
                   /\ UNCHANGED <<db_matches, db_last_teams, db_creates,
                                  db_unused>>

\* DB.remove_player(name)
DBRemovePlayer ==
    /\ db_commands < MaxCommands
    /\ UNCHANGED <<creator_vars, order_vars, player_vars, race_vars>>
    /\ \E name \in StoreNames \cup {UnknownName} :
          LET error == ValidatePlayerExistsByName(db_players, name, TRUE)
          IN  IF error # "none"
              THEN Rejected("remove_player", <<>>, error)
              ELSE /\ db_players' = [db_players EXCEPT ![name] = <<>>]
                   /\ Returns("remove_player", <<>>, <<>>)
                   /\ UNCHANGED <<db_matches, db_last_teams, db_creates,
                                  db_unused>>

\* UPDATE players SET {attribute} = value on one row
UpdatedRow(row, attribute, value) ==
    IF attribute = "form" THEN [row EXCEPT !.form = value]
    ELSE [row EXCEPT !.attributes[AttributeColumn(attribute)] = value]

\* DB.update_player_attribute(name, attribute, value)
DBUpdatePlayerAttribute ==
    /\ db_commands < MaxCommands
    /\ UNCHANGED <<creator_vars, order_vars, player_vars, race_vars>>
    /\ \E name \in StoreNames \cup {UnknownName},
          attribute \in UpdateAttributes, value \in UpdateValues :
          LET error == ValidatePlayerExistsByName(db_players, name, TRUE)
          IN  IF error # "none"
              THEN Rejected("update_player_attribute", <<>>, error)
              ELSE IF AttributeColumn(attribute) = 0
              THEN Rejected("update_player_attribute", <<>>, "ValueError")
              ELSE /\ db_players' = [db_players EXCEPT ![name] =
                           <<UpdatedRow(db_players[name][1], attribute, value)>>]
                   /\ Returns("update_player_attribute", <<>>, <<>>)
                   /\ UNCHANGED <<db_matches, db_last_teams, db_creates,
                                  db_unused>>

\* DB.reset_player_forms()
DBResetPlayerForms ==
    /\ db_commands < MaxCommands
    /\ UNCHANGED <<creator_vars, order_vars, player_vars, race_vars>>
    /\ db_players' = [n \in DOMAIN db_players |->
                         IF db_players[n] = <<>> THEN <<>>
                         ELSE <<[db_players[n][1] EXCEPT !.form = DefaultForm]>>]
    /\ Returns("reset_player_forms", <<>>, <<>>)
    /\ UNCHANGED <<db_matches, db_last_teams, db_creates, db_unused>>

\* DB.clear_database()
DBClearDatabase ==
    /\ db_commands < MaxCommands
    /\ UNCHANGED <<creator_vars, order_vars, player_vars, race_vars>>
    /\ db_players' = [n \in DOMAIN db_players |-> <<>>]
    /\ db_matches' = <<>>
    /\ db_last_teams' = <<>>
    /\ Returns("clear_database", <<>>, <<>>)
    /\ UNCHANGED <<db_creates, db_unused>>

\* The rows of last_teams for the players of one team
LastTeamRows(ps, label, bonus) ==
    [k \in 1..Len(ps) |->
        [player_name |-> ps[k].name, team |-> label, bonus |-> bonus]]

\* Mutant of SaveLastTeams: the rows of the earlier snapshot are not deleted
SaveLastTeams_NoDelete(rows, t1, t2) ==
    rows \o LastTeamRows(t1.players, TEAM1, t1.bonus)
         \o LastTeamRows(t2.players, TEAM2, t2.bonus)

\* DB.create_teams from "DELETE FROM last_teams" on: the table afterwards
SaveLastTeams(rows, t1, t2) ==
    LastTeamRows(t1.players, TEAM1, t1.bonus)
        \o LastTeamRows(t2.players, TEAM2, t2.bonus)

\* The Players of the rows of one team that get_player_by_name finds
RECURSIVE LastPlayers(_, _, _)
LastPlayers(rows, tbl, first) ==
    IF rows = <<>> THEN <<>>
    ELSE (IF (Head(rows).team = TEAM1) = first
          THEN GetPlayerByNameIn(tbl, Head(rows).player_name)
          ELSE <<>>) \o LastPlayers(Tail(rows), tbl, first)

\* The bonus of the last row of one team, 0.0 without a row
RECURSIVE LastBonus(_, _, _)
LastBonus(rows, first, bonus) ==
    IF rows = <<>> THEN bonus
    ELSE LastBonus(Tail(rows), first,
                   IF (Head(rows).team = TEAM1) = first THEN Head(rows).bonus
                   ELSE bonus)

\* DB.get_last_teams: the teams under TEAM1 and TEAM2
GetLastTeams(rows, tbl) ==
    <<Team(LastPlayers(rows, tbl, TRUE), LastBonus(rows, TRUE, NoBonus)),
      Team(LastPlayers(rows, tbl, FALSE), LastBonus(rows, FALSE, NoBonus))>>

\* The Players create_teams reads for its names, once every name is known
PlayersNamed(tbl, names) ==
    [k \in 1..Len(names) |-> GetPlayerByNameIn(tbl, names[k])[1]]

\* Mutant of DBCreateTeamsCmd: last_teams is emptied before the names are
\* validated
DBCreateTeamsCmd_DeleteFirst ==
    /\ db_commands < MaxCommands
    /\ db_creates < MaxCreates
    /\ UNCHANGED <<creator_vars, order_vars, player_vars, race_vars>>
    /\ \E names \in StoreNameLists :
          IF \/ \E k \in 1..Len(names) :
                    ValidatePlayerExistsByName(db_players, names[k], TRUE)
                        # "none"
             \/ Len(names) < 2
          THEN /\ db_commands' = db_commands + 1
               /\ db_cmd' = [op |-> "create_teams", arg |-> <<>>,
                             error |-> "ValueError"]
               /\ db_ret' = <<>>
               /\ db_last_teams' = <<>>
               /\ UNCHANGED <<db_players, db_matches, db_creates, db_unused>>
          ELSE LET ps == PlayersNamed(db_players, names)
                   r == BalancedTeams(ps, Len(ps) \div 2,
                                      Len(ps) - Len(ps) \div 2)
               IN  /\ db_last_teams' =
                          SaveLastTeams(db_last_teams, r.team_1, r.team_2)
                   /\ db_creates' = db_creates + 1
                   /\ db_unused' = TRUE
                   /\ Returns("create_teams", <<>>, <<r.team_1, r.team_2>>)
                   /\ UNCHANGED <<db_players, db_matches>>

\* DB.create_teams(player_names)
DBCreateTeamsCmd ==
    /\ db_commands < MaxCommands
    /\ db_creates < MaxCreates
    /\ UNCHANGED <<creator_vars, order_vars, player_vars, race_vars>>
    /\ \E names \in StoreNameLists :
          IF \E k \in 1..Len(names) :
                 ValidatePlayerExistsByName(db_players, names[k], TRUE) # "none"
          THEN Rejected("create_teams", <<>>, "ValueError")
          ELSE LET ps == PlayersNamed(db_players, names)
                   r == BalancedTeams(ps, Len(ps) \div 2,
                                      Len(ps) - Len(ps) \div 2)
               IN  IF Len(ps) < 2
                   THEN Rejected("create_teams", <<>>, "InvalidTeamsError")
                   ELSE IF r.error # "none"
                   THEN Rejected("create_teams", <<>>, r.error)
                   ELSE /\ db_last_teams' =
                               SaveLastTeams(db_last_teams, r.team_1, r.team_2)
                        /\ db_creates' = db_creates + 1
                        /\ db_unused' = TRUE
                        /\ Returns("create_teams", <<>>,
                                   <<r.team_1, r.team_2>>)
                        /\ UNCHANGED <<db_players, db_matches>>

\* Mutant of PersistForms: the UPDATE has no WHERE and writes every row
RECURSIVE PersistForms_EveryRow(_, _)
PersistForms_EveryRow(tbl, ps) ==
    IF ps = <<>> THEN tbl
    ELSE PersistForms_EveryRow(
             [n \in DOMAIN tbl |->
                 IF tbl[n] = <<>> THEN <<>>
                 ELSE <<[tbl[n][1] EXCEPT !.form = Head(ps).form]>>],
             Tail(ps))

\* The forms of the Players ps written to their rows, one UPDATE after the
\* other
RECURSIVE PersistForms(_, _)
PersistForms(tbl, ps) ==
    IF ps = <<>> THEN tbl
    ELSE PersistForms(
             [tbl EXCEPT ![Head(ps).name] =
                 IF @ = <<>> THEN @
                 ELSE <<[@[1] EXCEPT !.form = Head(ps).form]>>],
             Tail(ps))

\* Every Player of ps after update_form(won)
FormsUpdated(ps, won) ==
    [k \in 1..Len(ps) |-> [ps[k] EXCEPT !.form = UpdateForm(ps[k].form, won)]]

\* Mutant of RecordedStore: last_teams is not deleted
RecordedStore_KeepSnapshot(tbl, matches, rows, winning_team) ==
    LET last == GetLastTeams(rows, tbl)
        team1_won == winning_team = TEAM1
        team1 == FormsUpdated(last[1].players, team1_won)
        team2 == FormsUpdated(last[2].players, ~team1_won)
    IN  [players |-> PersistForms(tbl, team1 \o team2),
         matches |-> Append(matches, [team_1_score |-> 0, team_2_score |-> 0,
                                      winner |-> IF team1_won THEN 1 ELSE 2]),
         last_teams |-> rows]

\* DB.record_match_result from update_form on, with the teams last that
\* get_last_teams returned: the three tables after the commit
WrittenStore(tbl, matches, last, winning_team) ==
    LET team1_won == winning_team = TEAM1
        team1 == FormsUpdated(last[1].players, team1_won)
        team2 == FormsUpdated(last[2].players, ~team1_won)
    IN  [players |-> PersistForms(tbl, team1 \o team2),
         matches |-> Append(matches, [team_1_score |-> 0, team_2_score |-> 0,
                                      winner |-> IF team1_won THEN 1 ELSE 2]),
         last_teams |-> <<>>]

\* DB.record_match_result after its two checks: the three tables afterwards
RecordedStore(tbl, matches, rows, winning_team) ==
    WrittenStore(tbl, matches, GetLastTeams(rows, tbl), winning_team)

\* Mutant of NoLastTeams: the snapshot is not looked at
NoLastTeams_Never(last) == FALSE

\* The check of record_match_result that raises NoLastTeamsError
NoLastTeams(last) == last[1].players = <<>> \/ last[2].players = <<>>

\* DB.record_match_result(winning_team)
DBRecordMatchResult ==
    /\ db_commands < MaxCommands
    /\ Len(db_matches) <= MaxCreates
    /\ UNCHANGED <<creator_vars, order_vars, player_vars, race_vars>>
    /\ \E winning_team \in WinnerLabels :
          LET last == GetLastTeams(db_last_teams, db_players)
              new == RecordedStore(db_players, db_matches, db_last_teams,
                                   winning_team)
          IN  IF winning_team \notin {TEAM1, TEAM2}
              THEN Rejected("record_match_result", <<winning_team>>,
                            "InvalidTeamsError")
              ELSE IF NoLastTeams(last)
              THEN Rejected("record_match_result", <<winning_team>>,
                            "NoLastTeamsError")
              ELSE /\ db_players' = new.players
                   /\ db_matches' = new.matches
                   /\ db_last_teams' = new.last_teams
                   /\ db_unused' = FALSE
                   /\ Returns("record_match_result", <<winning_team>>, <<>>)
                   /\ UNCHANGED db_creates

StoreNext ==
    \/ DBAddPlayer
    \/ DBRemovePlayer
    \/ DBUpdatePlayerAttribute
    \/ DBResetPlayerForms
    \/ DBClearDatabase
    \/ DBCreateTeamsCmd
    \/ DBRecordMatchResult

StoreSpec == Init /\ [][StoreNext]_vars

----------------------------------------------------------------------------
(* RaceSpec: record_match_result called once on each of two connections to *)
(* the same database file.  Every execute of a SELECT reads what is        *)
(* committed at that moment; the UPDATEs, the INSERT and the DELETE of one *)
(* call run in one sqlite transaction, which its commit makes visible at   *)
(* once.  The store is filled through one connection before the calls.     *)

AllIdle == \A c \in Connections : conn[c] = Idle

\* add_player and create_teams before record_match_result is called
RaceSetup == AllIdle /\ (DBAddPlayer \/ DBCreateTeamsCmd)

\* record_match_result(winning_team) on connection c up to the SELECT on
\* last_teams of get_last_teams
RecordReadSnapshot ==
    /\ UNCHANGED <<creator_vars, order_vars, player_vars, store_vars>>
    /\ \E c \in Connections, winning_team \in WinnerLabels :
          /\ conn[c].pc = "idle"
          /\ conn' = [conn EXCEPT ![c] =
                IF winning_team \notin {TEAM1, TEAM2}
                THEN [Idle EXCEPT !.pc = "InvalidTeamsError",
                                  !.winning_team = winning_team]
                ELSE [pc |-> "rows", winning_team |-> winning_team,
                      snapshot |-> db_creates, rows |-> db_last_teams,
                      last |-> <<>>]]

\* The rest of get_last_teams on connection c, get_player_by_name for every
\* row, and the check for empty teams
RecordReadPlayers ==
    /\ UNCHANGED <<creator_vars, order_vars, player_vars, store_vars>>
    /\ \E c \in Connections :
          /\ conn[c].pc = "rows"
          /\ LET last == GetLastTeams(conn[c].rows, db_players)
             IN  conn' = [conn EXCEPT ![c] =
                    IF NoLastTeams(last)
                    THEN [@ EXCEPT !.pc = "NoLastTeamsError"]
                    ELSE [@ EXCEPT !.pc = "read", !.last = last]]

\* The form updates, the three writes and the commit on connection c
RecordWrite ==
    /\ UNCHANGED <<creator_vars, order_vars, player_vars>>
    /\ \E c \in Connections :
          /\ conn[c].pc = "read"
          /\ LET new == WrittenStore(db_players, db_matches, conn[c].last,
                                     conn[c].winning_team)
             IN  /\ db_players' = new.players
                 /\ db_matches' = new.matches
                 /\ db_last_teams' = new.last_teams
                 /\ db_unused' = FALSE
                 /\ conn' = [conn EXCEPT ![c].pc = "done"]
                 /\ UNCHANGED <<db_creates, db_commands, db_cmd, db_ret>>

RaceNext ==
    \/ RaceSetup
    \/ RecordReadSnapshot
    \/ RecordReadPlayers
    \/ RecordWrite

RaceSpec == Init /\ [][RaceNext]_vars

----------------------------------------------------------------------------
(* Vocabulary of the properties *)

\* A TeamCreator exists
Built == pc \in {"ready", "loop", "swapped", "done"}

\* |team_1.get_overall_rating() - team_2.get_overall_rating()|
Imbalance == TeamRatingDiff(team_1, team_2)

\* The last pass of the loop committed its swap
Committed == pc = "loop" /\ frame # <<>>

\* The imbalance after the players at 0-based positions i and j of the two
\* lists changed sides, with rating(team) = bonus * sum of member ratings
ExchangeDiff(ps1, b1, ps2, b2, i, j) ==
    LET r1 == GetOverallRating(ps1[i + 1])
        r2 == GetOverallRating(ps2[j + 1])
    IN  Abs(b1 * (SumRatings(ps1) - r1 + r2) - b2 * (SumRatings(ps2) - r2 + r1))

CrossPairs(ps1, ps2) == (0..(Len(ps1) - 1)) \X (0..(Len(ps2) - 1))

\* The cross pair of least resulting imbalance, the first such in row-major
\* order of (i, j)
BestCrossPair(ps1, b1, ps2, b2) ==
    CHOOSE x \in CrossPairs(ps1, ps2) :
        \A y \in CrossPairs(ps1, ps2) \ {x} :
            LET dx == ExchangeDiff(ps1, b1, ps2, b2, x[1], x[2])
                dy == ExchangeDiff(ps1, b1, ps2, b2, y[1], y[2])
            IN  TupleLess(<<dx, x[1], x[2]>>, <<dy, y[1], y[2]>>)

NamesOf(ps) == {ps[k].name : k \in 1..Len(ps)}

----------------------------------------------------------------------------
(* Properties *)

\* C1: a swap that stays committed leaves the imbalance strictly below the
\* imbalance measured before it, and whenever the swap loop is not in the
\* middle of a pass the imbalance is at most that of the seed split with its
\* bonus; in particular for the teams create_balanced_teams returns.
C1_CommittedSwapsImprove ==
    /\ Committed => Imbalance < frame[1].old_diff
    /\ pc \in {"ready", "loop", "done"} => Imbalance <= seed_diff

\* C1 witness: the second committed swap of a run, the imbalance now below
\* the seed's
C1_Witness == Committed /\ attempts >= 2 /\ Imbalance < seed_diff

\* C2: the swap loop is bounded and ends: every pass consumes one of the heap
\* entries counted after construction, so there are never more passes than
\* entries; no step raises; and a run that entered the loop reaches the
\* return of create_balanced_teams.
C2_Terminates ==
    /\ [](/\ pc # "raised"
          /\ Built => /\ attempts <= seed_heap
                      /\ Cardinality(swap_heap) + attempts <= seed_heap)
    /\ (pc = "loop") ~> (pc = "done")

\* C2 witness: a run that returned after three passes of the loop
C2_Witness == pc = "done" /\ attempts >= 3 /\ calls = 1

\* C3: when create_balanced_teams returns no cross pair's exchange gives a
\* strictly smaller imbalance.
C3_LocalOptimumAtReturn ==
    pc = "done" =>
        \A x \in CrossPairs(team_1.players, team_2.players) :
            ExchangeDiff(team_1.players, team_1.bonus,
                         team_2.players, team_2.bonus, x[1], x[2]) >= Imbalance

\* C4: the pair a committed swap exchanged is the cross pair of least resulting
\* imbalance of the teams as they were, the first in row-major order on ties.
C4_SwapsBestPair ==
    Committed =>
        <<frame[1].idx1, frame[1].idx2>> =
            BestCrossPair(before[1], team_1.bonus, before[2], team_2.bonus)

\* C5: after the seed split and after every swap, kept or undone, the players
\* of team 1 and team 2 together are the players given to TeamCreator, each
\* as often as it was given.
C5_PlayersConserved ==
    Built => Membership(team_1.players \o team_2.players) = Membership(players)

\* C5 witness: a run that has kept one swap and undone another
C5_Witness == pc = "done" /\ reverts >= 1 /\ attempts >= 2

\* C6: from the seed split on, through every pass of the loop and in the
\* returned teams, team 1 has team_1_size players and team 2 has team_2_size.
C6_SizesKept ==
    Built => /\ Len(team_1.players) = team_1_size
             /\ Len(team_2.players) = team_2_size

\* C6 witness: teams of unequal asked sizes right after a swap
C6_Witness ==
    pc = "swapped" /\ team_1_size > team_2_size /\ team_2_size > 0

\* C7: no player name is in both teams, at any step of a balancing run that
\* DB.create_teams started from a list of player names.
C7_PlayerInOneTeam ==
    (Built /\ caller = "db") =>
        NamesOf(team_1.players) \cap NamesOf(team_2.players) = {}

C9_LargerTeamBonusAboveOne ==
    pc = "done" =>
        /\ Len(team_1.players) > Len(team_2.players) => team_1.bonus > 10
        /\ Len(team_2.players) > Len(team_1.players) => team_2.bonus > 10

\* C9 witness: returned teams of 2 and 3 players, the bonus on team 2
C9_Witness ==
    /\ pc = "done"
    /\ Len(team_1.players) = 2 /\ Len(team_2.players) = 3
    /\ team_2.bonus > 10

\* C10: a second create_balanced_teams on the same TeamCreator returns the
\* membership the first one returned.
C10_SecondCallKeepsTeams ==
    (pc = "done" /\ calls >= 2) =>
        <<Membership(team_1.players), Membership(team_2.players)>> = first_result

\* The imbalance of the seed split of ps with its bonus
SeedImbalance(ps, s1, s2) ==
    LET split == DistributePlayers(ps, s1, s2)
        bonus == ApplyTeamBonus(Len(split[1]), Len(split[2]))
    IN  TeamRatingDiff(Team(split[1], bonus[1]), Team(split[2], bonus[2]))

\* C11: for the same players and the same sizes create_balanced_teams ends
\* with the same imbalance whatever the order of the input list, and the two
\* teams it returns hold together exactly the players of the input.
C11_OrderIndependent ==
    /\ order_out # <<>> =>
          /\ order_out[1].error = "none"
          /\ order_out[1].imbalance = order_ref[1].imbalance
          /\ NamesOf(order_out[1].team_1.players \o order_out[1].team_2.players)
                = NamesOf(order_in[1].players)
          /\ Len(order_out[1].team_1.players) + Len(order_out[1].team_2.players)
                = Len(order_in[1].players)
    /\ order_ref # <<>> =>
          NamesOf(order_ref[1].team_1.players \o order_ref[1].team_2.players)
              = NamesOf(order_in[1].players)

\* C11 witness: another order of five players, some of equal rating, that
\* puts other names in team 1 and whose run kept a swap
C11_Witness ==
    /\ order_out # <<>>
    /\ Len(order_in[1].players) = 5
    /\ order_out[1].given # order_in[1].players
    /\ NamesOf(order_out[1].team_1.players) # NamesOf(order_ref[1].team_1.players)
    /\ order_out[1].imbalance
          < SeedImbalance(order_out[1].given, order_in[1].size_1,
                          order_in[1].size_2)

\* C12: a TeamCreator exists only for sizes that add up to the number of
\* players; a constructor call that ended with InvalidTeamSizeError formed no
\* team, assigned no bonus, filled no heap and tried no swap.
C12_MismatchFailsFirst ==
    /\ (Built /\ caller = "direct") =>
          Len(players) = team_1_size + team_2_size
    /\ pc = "InvalidTeamSizeError" =>
          /\ players = <<>>
          /\ team_1 = Team(<<>>, DefaultBonus)
          /\ team_2 = Team(<<>>, DefaultBonus)
          /\ swap_heap = {}
          /\ seed_heap = 0
          /\ attempts = 0

\* C12 witness: a constructor call ended with InvalidTeamSizeError
C12_Witness == pc = "InvalidTeamSizeError" /\ caller = "none" /\ calls = 0

\* The names stored in the table players
Present(tbl) == {n \in DOMAIN tbl : tbl[n] # <<>>}

\* The names of a list of Players, in its order
NameSeq(ps) == [k \in 1..Len(ps) |-> ps[k].name]

\* C13: a record_match_result(w) that succeeds leaves every player of the
\* winning team of the snapshot with the form min(old + 1, 10) in the table
\* and every player of the losing team with max(old - 1, 0), adds exactly
\* one match row, with winner w, and leaves last_teams empty.
C13_RecordUpdatesForms ==
    [][(db_cmd'.op = "record_match_result" /\ db_cmd'.error = "none") =>
         LET last == GetLastTeams(db_last_teams, db_players)
             team1_won == db_cmd'.arg[1] = TEAM1
             winners == IF team1_won THEN last[1].players ELSE last[2].players
             losers == IF team1_won THEN last[2].players ELSE last[1].players
         IN  /\ \A k \in 1..Len(winners) :
                   db_players'[winners[k].name][1].form =
                       Min(db_players[winners[k].name][1].form + 1, MaxForm)
             /\ \A k \in 1..Len(losers) :
                   db_players'[losers[k].name][1].form =
                       Max(db_players[losers[k].name][1].form - 1, MinForm)
             /\ db_matches' =
                   Append(db_matches,
                          [team_1_score |-> 0, team_2_score |-> 0,
                           winner |-> IF team1_won THEN 1 ELSE 2])
             /\ db_last_teams' = <<>>]_vars

C16_SnapshotRoundTrip ==
    (db_cmd.op = "create_teams" /\ db_cmd.error = "none") =>
        LET last == GetLastTeams(db_last_teams, db_players)
        IN  /\ NameSeq(last[1].players) = NameSeq(db_ret[1].players)
            /\ NameSeq(last[2].players) = NameSeq(db_ret[2].players)
            /\ last[1].bonus = db_ret[1].bonus
            /\ last[2].bonus = db_ret[2].bonus
            /\ Len(db_last_teams) =
                  Len(db_ret[1].players) + Len(db_ret[2].players)

\* C16 witness: the second create_teams returned one player against two, the
\* bonus on team 2, over the snapshot of the first
C16_Witness ==
    /\ db_cmd.op = "create_teams"
    /\ db_cmd.error = "none"
    /\ db_creates = 2
    /\ Len(db_ret[1].players) = 1
    /\ Len(db_ret[2].players) = 2
    /\ db_ret[2].bonus = LARGE_TEAM_BOOST

\* C17: add_player with a name that is in the table fails and leaves the
\* table as it was: the row of that name and the number of rows.
C17_DuplicateAddRejected ==
    [][(db_cmd'.op = "add_player" /\ db_players[db_cmd'.arg[1]] # <<>>) =>
         /\ db_cmd'.error # "none"
         /\ db_players' = db_players]_vars

\* C17 witness: add_player was rejected for a name whose row no longer has
\* the form of the Player that was handed in
C17_Witness ==
    /\ db_cmd.op = "add_player"
    /\ db_cmd.error = "ValueError"
    /\ \E p \in StorePlayers :
          /\ p.name = db_cmd.arg[1]
          /\ db_players[p.name][1].form # p.form

\* C18: create_teams rejected for an unknown name or for fewer than two
\* players, remove_player and update_player_attribute rejected for an unknown
\* player or an invalid attribute, and record_match_result rejected for a
\* winner that is no team, leave players, matches and last_teams as they were.
C18_RejectedCommandKeepsStore ==
    [][(\/ /\ db_cmd'.op = "create_teams"
           /\ db_cmd'.error \in {"ValueError", "InvalidTeamsError"}
        \/ /\ db_cmd'.op \in {"remove_player", "update_player_attribute"}
           /\ db_cmd'.error = "ValueError"
        \/ /\ db_cmd'.op = "record_match_result"
           /\ db_cmd'.error = "InvalidTeamsError") =>
         UNCHANGED <<db_players, db_matches, db_last_teams>>]_vars

\* C18 witness: create_teams was rejected for an unknown name while the
\* snapshot of an earlier create_teams was stored
C18_Witness ==
    /\ db_cmd.op = "create_teams"
    /\ db_cmd.error = "ValueError"
    /\ db_last_teams # <<>>
    /\ db_creates = 1

\* C19: get_overall_rating returns base * (1 + 0.05 * (form - 5)) with base
\* the mean of the six scores, so that at form 5 it returns the base rating.
\* With num / den the value returned:
\*   num / den = (total / 6) * (15 + form) / 20
C19_RatingAroundNeutralForm ==
    obj_rating # <<>> =>
        obj_rating[1].num * NUM_ATTRIBUTES * 20 =
            SumSeq(obj[1].attributes) * (15 + obj_rating[1].form)
                * obj_rating[1].den

\* C20: every form update goes one step from the form it found, up to at
\* most 10 on a win and down to at least 0 on a loss, and leaves that form in
\* the Player; the next update goes on from there, so two wins give
\* min(form + 2, 10) and two losses max(form - 2, 0).
C20_FormStepsByOne ==
    /\ \A k \in 1..Len(obj_log) :
          obj_log[k].after = IF obj_log[k].won
                             THEN Min(obj_log[k].before + 1, 10)
                             ELSE Max(obj_log[k].before - 1, 0)
    /\ \A k \in 1..(Len(obj_log) - 1) : obj_log[k + 1].before = obj_log[k].after
    /\ obj_log # <<>> => obj[1].form = obj_log[Len(obj_log)].after
    /\ (Len(obj_log) >= 2 /\ obj_log[1].won = obj_log[2].won) =>
          obj_log[2].after = IF obj_log[1].won
                             THEN Min(obj_log[1].before + 2, 10)
                             ELSE Max(obj_log[1].before - 2, 0)

\* C20 witness: two wins from form 9, the second held at 10
C20_Witness ==
    /\ Len(obj_log) = 2
    /\ obj_log[1].won /\ obj_log[2].won
    /\ obj_log[1].before = 9
    /\ obj[1].form = 10

\* C21: an update after a win of a player whose form was below 10 leaves
\* get_overall_rating strictly higher than it was before the update, and an
\* update after a loss of a player whose form was above 0 leaves it strictly
\* lower.  The denominator of the value after the update is ten times the one
\* before.
C21_WinRaisesLossLowers ==
    [][(obj # <<>> /\ Len(obj_log') = Len(obj_log) + 1) =>
         LET e == obj_log'[Len(obj_log')]
             old == RatingOf(obj[1])
             new == RatingOf(obj'[1])
         IN  /\ (e.won /\ e.before < 10) => 10 * old.num < new.num
             /\ (~e.won /\ e.before > 0) => new.num < 10 * old.num]_vars

\* C22: of two players built with the same six scores, not all zero, and
\* forms f1 < f2 in 0..10, the one with form f2 has the strictly greater
\* get_overall_rating.
C22_RatingGrowsWithForm ==
    (/\ obj_rating # <<>>
     /\ obj_log = <<>>
     /\ SumSeq(obj[1].attributes) > 0) =>
        LET mine == obj_rating[Len(obj_rating)]
        IN  \A f \in MinForm..MaxForm :
                LET other == RatingOf(PlayerObject(obj[1].attributes, f))
                IN  /\ f < obj[1].form =>
                          other.num * mine.den < mine.num * other.den
                    /\ f > obj[1].form =>
                          other.num * mine.den > mine.num * other.den

\* C22 witness: the rating of a player of form 5 with scores above zero was
\* read, with lower and higher forms to compare with
C22_Witness ==
    /\ obj_rating # <<>>
    /\ obj_log = <<>>
    /\ obj[1].form = 5
    /\ obj[1].attributes = <<9, 6, 9, 5, 9, 7>>

\* C23: a Player built with a form below 0 has the form 0, one built with a
\* form above 10 has the form 10, and one built with a form in 0..10 has the
\* form it was given.
C23_FormClampedAtConstruction ==
    (obj # <<>> /\ obj_log = <<>>) =>
        obj[1].form = IF obj_form[1] < 0 THEN 0
                      ELSE IF obj_form[1] > 10 THEN 10
                      ELSE obj_form[1]

\* C23 witness: a Player built with the form 15
C23_Witness == obj # <<>> /\ obj_log = <<>> /\ obj_form = <<15>> /\ obj[1].form = 10

\* C24: get_overall_rating called again on a Player that was not updated in
\* between returns the value it returned before, and no call changes the six
\* scores, the form or mu.
C24_RatingIsPure ==
    /\ [](Len(obj_rating) = 2 => obj_rating[1] = obj_rating[2])
    /\ [][(obj # <<>> /\ obj_log' = obj_log) =>
            /\ obj'[1].attributes = obj[1].attributes
            /\ obj'[1].form = obj[1].form
            /\ obj'[1].mu = obj[1].mu
            /\ obj'[1].den = obj[1].den]_vars

\* C24 witness: two calls in a row on a Player that had won and lost a match
C24_Witness ==
    /\ Len(obj_rating) = 2
    /\ Len(obj_log) = 2
    /\ obj_log[1].won /\ ~obj_log[2].won

\* C25: the imbalance _can_improve_balance computed for the pair a pass of
\* the loop then exchanged is the imbalance of the teams after the exchange,
\* whatever the bonuses, and no swap is ever undone.
C25_SimulationIsExact ==
    /\ pc = "swapped" =>
          SimulatedDiff(Team(before[1], team_1.bonus),
                        Team(before[2], team_2.bonus),
                        frame[1].idx1, frame[1].idx2) = Imbalance
    /\ reverts = 0

\* C26: whenever the loop test reads the top entry (d, i, j) of the heap and
\* i and j are positions of the teams, d is the distance of the ratings of
\* the players now at position i of team 1 and position j of team 2.
C26_HeapMatchesTeams ==
    (pc = "loop" /\ swap_heap # {}) =>
        LET e == HeapTop(swap_heap)
        IN  (e[2] < Len(team_1.players) /\ e[3] < Len(team_2.players)) =>
                e[1] = Abs(GetOverallRating(team_1.players[e[2] + 1])
                           - GetOverallRating(team_2.players[e[3] + 1]))

\* C27: every row of the table players has a form within 0..10, whatever
\* commands were run.
C27_StoredFormInRange ==
    \A n \in Present(db_players) :
        /\ db_players[n][1].form >= 0
        /\ db_players[n][1].form <= 10

\* The Players a call of record_match_result read for the snapshot
Participants(c) == conn[c].last[1].players \o conn[c].last[2].players

\* C28: of two record_match_result calls that read the same snapshot, one
\* that names no player twice, at most one records a match, and when both
\* ran to their end every player of the snapshot has in the table the form
\* one step, up or down, from the form the calls read.
C28_OneCallRecords ==
    \A c, d \in Connections :
        (/\ c # d
         /\ conn[c].pc = "done"
         /\ conn[d].pc = "done"
         /\ Cardinality(NamesOf(Participants(c))) = Len(Participants(c))) =>
            /\ conn[c].snapshot # conn[d].snapshot
            /\ \A k \in 1..Len(Participants(c)) :
                  LET p == Participants(c)[k]
                  IN  db_players[p.name][1].form
                          \in {Min(p.form + 1, 10), Max(p.form - 1, 0)}

\* The highest rating of the players of ps less the lowest
RatingSpread(ps) ==
    LET R == {GetOverallRating(ps[k]) : k \in 1..Len(ps)}
    IN  (CHOOSE x \in R : \A y \in R : y <= x)
            - (CHOOSE x \in R : \A y \in R : x <= y)

\* C29: for equal team sizes the seed split gives team 1 the players at the
\* even 0-based positions of the descending rating order and team 2 those at
\* the odd positions, the imbalance of the seed split is at most the highest
\* player rating less the lowest, and so is the imbalance of the teams
\* create_balanced_teams returns.  A team rating is in units a tenth of a
\* player rating's.
C29_SeedImbalanceBounded ==
    (Built /\ team_1_size = team_2_size /\ players # <<>>) =>
        LET sorted == SortedByRating(players)
        IN  /\ (attempts = 0 /\ reverts = 0) =>
                  /\ team_1.players = [k \in 1..team_1_size |-> sorted[2 * k - 1]]
                  /\ team_2.players = [k \in 1..team_2_size |-> sorted[2 * k]]
            /\ seed_diff <= 10 * RatingSpread(players)
            /\ pc = "done" => Imbalance <= 10 * RatingSpread(players)

\* C29 witness: teams of two players each returned after a kept swap
C29_Witness ==
    /\ pc = "done"
    /\ team_1_size = 2 /\ team_2_size = 2
    /\ seed_diff > 0
    /\ Imbalance < seed_diff

\* The names in the rows of a snapshot
SnapshotNames(rows) == {rows[k].player_name : k \in 1..Len(rows)}

\* C30: the writes of a record_match_result leave in the table players the
\* names that were there, every row's six scores, and the form of every
\* player the snapshot it read does not name; a create_teams leaves the
\* tables players and matches as they were.
C30_FrameOfRecordAndCreate ==
    [][/\ \A c \in Connections :
             (conn[c].pc = "read" /\ conn'[c].pc = "done") =>
                 /\ Present(db_players') = Present(db_players)
                 /\ \A n \in Present(db_players) :
                       /\ db_players'[n][1].attributes
                             = db_players[n][1].attributes
                       /\ n \notin SnapshotNames(conn[c].rows) =>
                             db_players'[n][1].form = db_players[n][1].form
       /\ (db_commands' # db_commands /\ db_cmd'.op = "create_teams") =>
             /\ db_players' = db_players
             /\ db_matches' = db_matches]_vars

\* C30 witness: three players are stored, teams were made of two of them and
\* one record_match_result ran to its end
C30_Witness ==
    /\ \E c \in Connections :
          /\ conn[c].pc = "done"
          /\ Cardinality(SnapshotNames(conn[c].rows)) = 2
          /\ \A d \in Connections \ {c} : conn[d] = Idle
    /\ Cardinality(Present(db_players)) = 3
    /\ Len(db_matches) = 1
    /\ db_last_teams = <<>>

====
